---------------------------- MODULE Spec2Model ----------------------------
(***************************************************************************)
(* Live-data synchronisation of the dashboard: the Dashboard's health     *)
(* poller and tab state, the five polling panels (Metrics, Drift, Errors, *)
(* Executions, Alerts) and DriftPanel's selection-driven executeSql fetch.*)
(*                                                                         *)
(* A fetch is a record in `inflight` from the call of the api function    *)
(* until its promise settles; the settle actions run the promise chain    *)
(* (.then / .catch / .finally) of the place that issued it.  A state      *)
(* setter of a component instance that has been unmounted is a no-op      *)
(* (React), so every fetch carries the instance that issued it.  The      *)
(* state of a panel that is not mounted is kept at its useState initial   *)
(* values: that is what the next mount starts from.                       *)
(***************************************************************************)
EXTENDS Naturals, FiniteSets, Sequences

\* ------------------------------------------------------------------ bounds
\* Total number of api calls issued in a behaviour.
MaxFetches == 5
\* Total number of component instances (Dashboard or panel) ever mounted.
MaxMounts == 4
\* Number of requests recorded in a behaviour of the api client.
MaxRequests == 2

\* --------------------------------------------------------------- constants
TABS == {"Metrics", "Drift", "Errors", "Executions", "Alerts"}
\* Panels that keep an error state / a loading flag.
ErrPanels == {"Metrics", "Drift", "Errors"}
LoadPanels == {"Executions", "Alerts"}
Pollers == TABS \cup {"health"}
\* Values of DriftPanel's filter: '' (All) and one agent type (the panel has
\* a second agent button, 'demand', which behaves as 'spend' does).
Scopes == {"", "spend"}
\* Failure message of the transport (e.message).
Msgs == {"Network Error"}

\* high_drift_samples rows offered by every drift payload.
Samples ==
  { [query_id |-> "X", sql |-> "SELECT X", agent_type |-> "spend"],
    [query_id |-> "Y", sql |-> "SELECT Y", agent_type |-> "demand"],
    [query_id |-> "N", sql |-> "Not Available", agent_type |-> "spend"],
    [query_id |-> "M", sql |-> "Not Available", agent_type |-> ""] }

\* sql.includes("Not Available"), over the sql strings of Samples.
IncludesNotAvailable(sql) == sql \in {"Not Available"}

\* selectedQuery: null, or a row object of the data it was clicked in
\* (src is the identity of that data object).
NoSel == [query_id |-> "null", sql |-> "", agent_type |-> "", src |-> 0]
Row(s, d) == [query_id |-> s.query_id, sql |-> s.sql,
              agent_type |-> s.agent_type, src |-> d.id]

\* data of a panel: null, an array (runs, alerts) or a decoded object.
NullData == [kind |-> "null", id |-> 0, scope |-> "", rows |-> 0]
EmptyArray == [kind |-> "array", id |-> 0, scope |-> "", rows |-> 0]
InitData(p) == IF p \in LoadPanels THEN EmptyArray ELSE NullData

\* execResult
NullRes == [status |-> "null", error |-> "", sql |-> "", rows |-> 0]
ErrRes(msg) == [status |-> "error", error |-> msg, sql |-> "", rows |-> 0]
OkRes(sql, n) == [status |-> "ok", error |-> "", sql |-> sql, rows |-> n]

\* health: null or a snapshot; hasAgents is FALSE when the payload has no
\* agents member.
Agents == {"spend", "demand"}
NullHealth == [kind |-> "null", hasAgents |-> FALSE, agents |-> << >>]
Snapshot(m) == [kind |-> "snap", hasAgents |-> TRUE, agents |-> m]
\* The snapshots the server answers with: {} (no agents member), every agent
\* ok, one agent degraded.
HealthPayloads ==
  { [kind |-> "snap", hasAgents |-> FALSE, agents |-> << >>],
    Snapshot([a \in Agents |-> "ok"]),
    Snapshot([a \in Agents |-> IF a = "spend" THEN "ok" ELSE "degraded"]) }

VARIABLES
  dashMounted,    \* Dashboard is rendered (RequireAuth lets it through)
  dashInst,       \* instance of the mounted Dashboard, 0 if none
  panelInst,      \* instance of the mounted panel, 0 if none
  nextInst,       \* instances created so far
  tab,            \* Dashboard: tab
  health,         \* Dashboard: health
  data,           \* per panel: data / runs / alerts
  error,          \* Metrics, Drift, Errors: error ("null" or a message)
  loading,        \* Executions, Alerts: loading
  filter,         \* DriftPanel: filter
  selectedQuery,  \* DriftPanel: selectedQuery
  execResult,     \* DriftPanel: execResult
  execLoading,    \* DriftPanel: execLoading
  timers,         \* live setInterval timers
  inflight,       \* api calls whose promise has not settled
  total,          \* api calls issued so far
  execIssued,     \* DriftPanel: executeSql calls of this instance (history)
  unhandled,      \* a rejection reached no .catch
  lastOk,         \* per poller: payload last applied by a .then (history)
  outcome,        \* per poller: how the last settled fetch of this instance ended
  issued,         \* per poller: fetches issued by this instance (history)
  ticks,          \* per poller: interval ticks of this instance (history)
  runs,           \* per poller: runs of the polling effect of this instance
  accessToken,    \* api: let accessToken
  requests        \* api: the requests sent, with their headers (history)

vars == << dashMounted, dashInst, panelInst, nextInst, tab, health, data,
           error, loading, filter, selectedQuery, execResult, execLoading,
           timers, inflight, total, execIssued, unhandled, lastOk, outcome,
           issued, ticks, runs, accessToken, requests >>

\* The state of the api client.
apiVars == << accessToken, requests >>

\* ------------------------------------------------------------ fetch, timer
\* A call of an api function: the id is its number among the calls of its
\* kind by its instance.
Fetch(id, kind, inst, param, sel) ==
  [id |-> id, kind |-> kind, inst |-> inst, param |-> param, sel |-> sel]

Timer(owner, inst, scope) == [owner |-> owner, inst |-> inst, scope |-> scope]

\* Live with a fault: a setter of an unmounted instance still writes.
Live_always(kind, inst) == dashMounted

\* The instance a fetch or timer of `kind` belongs to is still mounted.
Live(kind, inst) ==
  /\ dashMounted
  /\ inst = (IF kind = "health" THEN dashInst ELSE panelInst)


\* -------------------------------------------------------- promise handlers
\* Poll, on success: .then(setData) / setRuns(data) / setAlerts(data).
ThenData(p, old, res) == res
\* Poll, on success: no handler writes error.
ThenError(p, old) == old
\* Poll, on success: setLoading(false) (Executions, Alerts).
ThenLoading(p, old) == FALSE
\* CatchData with a fault: the failure handler clears the data.
CatchData_clears(p, old) == InitData(p)
\* Poll, on failure: no handler writes data.
CatchData(p, old) == old
\* Poll, on failure: .catch(e => setError(e.message)) (Metrics, Drift, Errors).
CatchError(p, old, msg) == msg
\* CatchLoading with a fault: the failure handler leaves loading as it is.
CatchLoading_keeps(p, old) == old
\* Poll, on failure: setLoading(false) (Executions, Alerts).
CatchLoading(p, old) == FALSE
\* Health poll: .then(setHealth).catch(() => { }).
ThenHealth(old, snap) == snap
\* CatchHealth with a fault: the failure handler clears the snapshot.
CatchHealth_clears(old) == NullHealth
CatchHealth(old) == old
\* executeSql chain: .then(res => setExecResult(res))
\*   .catch(err => setExecResult({status: 'error', error: err.message}))
\*   .finally(() => setExecLoading(false)).
ExecThen(old, res) == res
\* ExecCatch with a fault: the rejection is swallowed, execResult is kept.
ExecCatch_keeps(old, msg) == old
ExecCatch(old, msg) == ErrRes(msg)
ExecFinally(old) == FALSE
\* Every promise chain of the panels and of the Dashboard ends in a .catch.
Catches(kind) == kind \in Pollers \cup {"exec"}

\* What the server can answer to a fetch.
PollResponses(f) ==
  IF f.kind \in LoadPanels
    THEN { [kind |-> "array", id |-> f.id, scope |-> f.param, rows |-> n] :
             n \in 0..1 }
    ELSE { [kind |-> "object", id |-> f.id, scope |-> f.param, rows |-> 1] }
ExecResponses(f) ==
  { OkRes(f.param, 0), OkRes(f.param, 1), ErrRes("SQL error") }

\* ------------------------------------------------------------ timers, load
\* Cleanup with a fault: the effect returns no cleanup, the interval stays.
Cleanup_leak(ts, owner, inst) == ts

\* Cleanup with a fault: the cleanup clears every interval of the page.
Cleanup_all(ts, owner, inst) == {}

\* The effect's cleanup: clearInterval(interval).
Cleanup(ts, owner, inst) ==
  ts \ { x \in ts : x.owner = owner /\ x.inst = inst }

\* Load with a fault: fetchDrift is called without the agent type.
Load_unscoped(id, owner, inst, scope) == { Fetch(id, owner, inst, "", NoSel) }

\* One call of load / loadHistory / loadAlerts / poll: the fetches it issues.
Load(id, owner, inst, scope) == { Fetch(id, owner, inst, scope, NoSel) }

\* ------------------------------------------------------------------- views
\* What a panel renders: the error message, the data view, the loading text.
View(p) ==
  IF p \in ErrPanels
    THEN [ error   |-> error[p] # "null",
           table   |-> error[p] = "null" /\ data[p] # NullData,
           loading |-> error[p] = "null" /\ data[p] = NullData ]
    ELSE [ error   |-> FALSE,
           table   |-> ~(loading[p] /\ data[p].rows = 0),
           loading |-> loading[p] /\ data[p].rows = 0 ]

\* OutputView with a fault: an empty result is rendered as no result.
OutputView_noZero(l, res) ==
  IF l THEN [el |-> "loading", text |-> "Loading output...", rows |-> 0]
  ELSE IF res = NullRes \/ (res.status # "error" /\ res.rows = 0)
    THEN [el |-> "none", text |-> "No output data.", rows |-> 0]
  ELSE IF res.status = "error"
    THEN [el |-> "error", text |-> res.error, rows |-> 0]
  ELSE [el |-> "table", text |-> "", rows |-> res.rows]

\* The Query Output pane of DriftPanel for execLoading l and execResult res:
\* 'Loading output...', 'No output data.', the error text, '0 rows
\* returned.' or the table of the rows.
OutputView(l, res) ==
  IF l THEN [el |-> "loading", text |-> "Loading output...", rows |-> 0]
  ELSE IF res = NullRes
    THEN [el |-> "none", text |-> "No output data.", rows |-> 0]
  ELSE IF res.status = "error"
    THEN [el |-> "error", text |-> res.error, rows |-> 0]
  ELSE IF res.rows = 0
    THEN [el |-> "zero", text |-> "0 rows returned.", rows |-> 0]
  ELSE [el |-> "table", text |-> "", rows |-> res.rows]

\* const agentsUp = health ? Object.values(health.agents || {}).every(...) : false
agentsUp ==
  IF health # NullHealth
    THEN \A a \in DOMAIN health.agents : health.agents[a] = "ok"
    ELSE FALSE

\* -------------------------------------------------------------------- Init
InitPanels ==
  /\ data = [p \in TABS |-> InitData(p)]
  /\ error = [p \in ErrPanels |-> "null"]
  /\ loading = [p \in LoadPanels |-> TRUE]
  /\ filter = ""
  /\ selectedQuery = NoSel
  /\ execResult = NullRes
  /\ execLoading = FALSE
  /\ execIssued = 0

\* A panel instance starts from its useState initial values.
ResetPanels ==
  /\ data' = [p \in TABS |-> InitData(p)]
  /\ error' = [p \in ErrPanels |-> "null"]
  /\ loading' = [p \in LoadPanels |-> TRUE]
  /\ filter' = ""
  /\ selectedQuery' = NoSel
  /\ execResult' = NullRes
  /\ execLoading' = FALSE
  /\ execIssued' = 0

\* Dashboard rendered on the Metrics tab, the mount effects of MetricsPanel
\* and of Dashboard have run.
Init ==
  /\ dashMounted = TRUE
  /\ dashInst = 1
  /\ panelInst = 2
  /\ nextInst = 2
  /\ tab = "Metrics"
  /\ health = NullHealth
  /\ InitPanels
  /\ timers = { Timer("Metrics", 2, ""), Timer("health", 1, "") }
  /\ inflight = Load(1, "Metrics", 2, "") \cup Load(1, "health", 1, "")
  /\ total = 2
  /\ unhandled = FALSE
  /\ lastOk = [o \in Pollers |-> IF o = "health" THEN NullHealth ELSE InitData(o)]
  /\ outcome = [o \in Pollers |-> "none"]
  /\ issued = [o \in Pollers |->
                 IF o = "Metrics" THEN Cardinality(Load(1, "Metrics", 2, ""))
                 ELSE IF o = "health" THEN Cardinality(Load(1, "health", 1, ""))
                 ELSE 0]
  /\ ticks = [o \in Pollers |-> 0]
  /\ runs = [o \in Pollers |-> IF o \in {"Metrics", "health"} THEN 1 ELSE 0]
  /\ accessToken = "null"
  /\ requests = << >>

\* ----------------------------------------------------------------- actions
\* History of a poller whose instance has just been mounted / unmounted.
Fresh(f, o, v) == [f EXCEPT ![o] = v]

\* A click on a tab button: setTab(t).  The panel of the old tab unmounts
\* (its cleanup clears its interval), the panel of the new tab mounts with
\* initial state and its effect calls load() and starts its interval.
SetTab(t) ==
  /\ UNCHANGED apiVars
  /\ dashMounted
  /\ t # tab
  /\ nextInst < MaxMounts
  /\ total < MaxFetches
  /\ LET i == nextInst + 1
         new == Load(1, t, i, "")
     IN  /\ tab' = t
         /\ panelInst' = i
         /\ nextInst' = i
         /\ ResetPanels
         /\ timers' = Cleanup(timers, tab, panelInst) \cup { Timer(t, i, "") }
         /\ inflight' = inflight \cup new
         /\ total' = total + Cardinality(new)
         /\ lastOk' = Fresh(Fresh(lastOk, tab, InitData(tab)), t, InitData(t))
         /\ outcome' = Fresh(Fresh(outcome, tab, "none"), t, "none")
         /\ issued' = Fresh(Fresh(issued, tab, 0), t, Cardinality(new))
         /\ ticks' = Fresh(Fresh(ticks, tab, 0), t, 0)
         /\ runs' = Fresh(Fresh(runs, tab, 0), t, 1)
  /\ UNCHANGED << dashMounted, dashInst, health, unhandled >>

\* A setInterval timer fires: load() / loadHistory() / loadAlerts() / poll(),
\* for DriftPanel load(filter) with the filter the effect closed over.
Tick(t) ==
  /\ UNCHANGED apiVars
  /\ t \in timers
  /\ total < MaxFetches
  /\ LET new == Load(issued[t.owner] + 1, t.owner, t.inst, t.scope)
     IN  /\ inflight' = inflight \cup new
         /\ issued' = [issued EXCEPT ![t.owner] = @ + Cardinality(new)]
         /\ total' = total + Cardinality(new)
  /\ ticks' = [ticks EXCEPT ![t.owner] = @ + 1]
  /\ UNCHANGED << dashMounted, dashInst, panelInst, nextInst, tab, health,
                  data, error, loading, filter, selectedQuery, execResult,
                  execLoading, execIssued, timers, unhandled, lastOk,
                  outcome, runs >>

\* A poll of a panel resolves with payload res.
ResolvePoll(f, res) ==
  /\ UNCHANGED apiVars
  /\ f \in inflight
  /\ f.kind \in TABS
  /\ res \in PollResponses(f)
  /\ inflight' = inflight \ {f}
  /\ IF Live(f.kind, f.inst)
       THEN /\ data' = [data EXCEPT ![f.kind] = ThenData(f.kind, @, res)]
            /\ error' = [p \in ErrPanels |->
                           IF p = f.kind THEN ThenError(p, error[p])
                           ELSE error[p]]
            /\ loading' = [p \in LoadPanels |->
                             IF p = f.kind THEN ThenLoading(p, loading[p])
                             ELSE loading[p]]
            /\ lastOk' = [lastOk EXCEPT ![f.kind] = res]
            /\ outcome' = [outcome EXCEPT ![f.kind] = "ok"]
       ELSE UNCHANGED << data, error, loading, lastOk, outcome >>
  /\ UNCHANGED << dashMounted, dashInst, panelInst, nextInst, tab, health,
                  filter, selectedQuery, execResult, execLoading, execIssued,
                  timers, total, unhandled, issued, ticks, runs >>

\* A poll of a panel fails with message msg.
RejectPoll(f, msg) ==
  /\ UNCHANGED apiVars
  /\ f \in inflight
  /\ f.kind \in TABS
  /\ inflight' = inflight \ {f}
  /\ unhandled' = (unhandled \/ ~Catches(f.kind))
  /\ IF Live(f.kind, f.inst)
       THEN /\ data' = [data EXCEPT ![f.kind] = CatchData(f.kind, @)]
            /\ error' = [p \in ErrPanels |->
                           IF p = f.kind THEN CatchError(p, error[p], msg)
                           ELSE error[p]]
            /\ loading' = [p \in LoadPanels |->
                             IF p = f.kind THEN CatchLoading(p, loading[p])
                             ELSE loading[p]]
            /\ outcome' = [outcome EXCEPT ![f.kind] = "fail"]
       ELSE UNCHANGED << data, error, loading, outcome >>
  /\ UNCHANGED << dashMounted, dashInst, panelInst, nextInst, tab, health,
                  filter, selectedQuery, execResult, execLoading, execIssued,
                  timers, total, lastOk, issued, ticks, runs >>

\* The health poll resolves with snapshot snap.
ResolveHealth(f, snap) ==
  /\ UNCHANGED apiVars
  /\ f \in inflight
  /\ f.kind = "health"
  /\ inflight' = inflight \ {f}
  /\ IF Live(f.kind, f.inst)
       THEN /\ health' = ThenHealth(health, snap)
            /\ lastOk' = [lastOk EXCEPT !["health"] = snap]
            /\ outcome' = [outcome EXCEPT !["health"] = "ok"]
       ELSE UNCHANGED << health, lastOk, outcome >>
  /\ UNCHANGED << dashMounted, dashInst, panelInst, nextInst, tab, data,
                  error, loading, filter, selectedQuery, execResult,
                  execLoading, execIssued, timers, total, unhandled, issued,
                  ticks, runs >>

\* The health poll fails.
RejectHealth(f) ==
  /\ UNCHANGED apiVars
  /\ f \in inflight
  /\ f.kind = "health"
  /\ inflight' = inflight \ {f}
  /\ unhandled' = (unhandled \/ ~Catches(f.kind))
  /\ IF Live(f.kind, f.inst)
       THEN /\ health' = CatchHealth(health)
            /\ outcome' = [outcome EXCEPT !["health"] = "fail"]
       ELSE UNCHANGED << health, outcome >>
  /\ UNCHANGED << dashMounted, dashInst, panelInst, nextInst, tab, data,
                  error, loading, filter, selectedQuery, execResult,
                  execLoading, execIssued, timers, total, lastOk, issued,
                  ticks, runs >>

\* A click on a filter button of DriftPanel: setFilter(v).  The [filter]
\* effect's cleanup clears the interval, the effect runs again: load(filter)
\* and a new interval that closes over the new filter.
SetFilter(v) ==
  /\ UNCHANGED apiVars
  /\ dashMounted
  /\ tab = "Drift"
  /\ View("Drift").table
  /\ v \in Scopes
  /\ v # filter
  /\ total < MaxFetches
  /\ filter' = v
  /\ timers' = Cleanup(timers, "Drift", panelInst)
                 \cup { Timer("Drift", panelInst, v) }
  /\ LET new == Load(issued["Drift"] + 1, "Drift", panelInst, v)
     IN  /\ inflight' = inflight \cup new
         /\ issued' = [issued EXCEPT !["Drift"] = @ + Cardinality(new)]
         /\ total' = total + Cardinality(new)
  /\ runs' = [runs EXCEPT !["Drift"] = @ + 1]
  /\ UNCHANGED << dashMounted, dashInst, panelInst, nextInst, tab, health,
                  data, error, loading, selectedQuery, execResult,
                  execLoading, execIssued, unhandled, lastOk, outcome, ticks >>

\* The [selectedQuery] effect of DriftPanel, for the new selection sel.
\* It goes on to executeSql unless one of its two early returns is taken.
ExecutesSql(sel) ==
  /\ ~(sel.sql = "" \/ sel.agent_type = "")
  /\ ~IncludesNotAvailable(sel.sql)
\* EffectResult with a fault: the first early return leaves execResult.
EffectResult_keeps(sel, old) ==
  IF ~(sel.sql = "" \/ sel.agent_type = "") /\ IncludesNotAvailable(sel.sql)
    THEN ErrRes("No SQL recorded.")
    ELSE old
EffectResult(sel, old) ==
  IF sel.sql = "" \/ sel.agent_type = "" THEN NullRes
  ELSE IF IncludesNotAvailable(sel.sql) THEN ErrRes("No SQL recorded.")
  ELSE old
EffectLoading(sel, old) == IF ExecutesSql(sel) THEN TRUE ELSE old
\* EffectFetches with a fault: the sentinel check is missing.
EffectFetches_noSentinel(id, inst, sel) ==
  IF ~(sel.sql = "" \/ sel.agent_type = "")
    THEN { Fetch(id, "exec", inst, sel.sql, sel) } ELSE {}
EffectFetches(id, inst, sel) ==
  IF ExecutesSql(sel) THEN { Fetch(id, "exec", inst, sel.sql, sel) } ELSE {}

SelectionEffect(sel) ==
  /\ UNCHANGED apiVars
  /\ ExecutesSql(sel) => total < MaxFetches
  /\ selectedQuery' = sel
  /\ execResult' = EffectResult(sel, execResult)
  /\ execLoading' = EffectLoading(sel, execLoading)
  /\ LET new == EffectFetches(execIssued + 1, panelInst, sel)
     IN  /\ inflight' = inflight \cup new
         /\ execIssued' = execIssued + Cardinality(new)
         /\ total' = total + Cardinality(new)
  /\ UNCHANGED << dashMounted, dashInst, panelInst, nextInst, tab, health,
                  data, error, loading, filter, timers, unhandled, lastOk,
                  outcome, issued, ticks, runs >>

\* A click on a row of the high-drift table: setSelectedQuery(s).  Setting
\* the row object that is already selected re-renders nothing.
SelectQuery(s) ==
  /\ dashMounted
  /\ tab = "Drift"
  /\ View("Drift").table
  /\ s \in Samples
  /\ Row(s, data["Drift"]) # selectedQuery
  /\ SelectionEffect(Row(s, data["Drift"]))

\* A click on Close: setSelectedQuery(null).
CloseQuery ==
  /\ dashMounted
  /\ tab = "Drift"
  /\ View("Drift").table
  /\ selectedQuery # NoSel
  /\ SelectionEffect(NoSel)

\* executeSql resolves with res.
ResolveExec(f, res) ==
  /\ UNCHANGED apiVars
  /\ f \in inflight
  /\ f.kind = "exec"
  /\ res \in ExecResponses(f)
  /\ inflight' = inflight \ {f}
  /\ IF Live(f.kind, f.inst)
       THEN /\ execResult' = ExecThen(execResult, res)
            /\ execLoading' = ExecFinally(execLoading)
       ELSE UNCHANGED << execResult, execLoading >>
  /\ UNCHANGED << dashMounted, dashInst, panelInst, nextInst, tab, health,
                  data, error, loading, filter, selectedQuery, execIssued,
                  timers, total, unhandled, lastOk, outcome, issued, ticks,
                  runs >>

\* executeSql fails with message msg.
RejectExec(f, msg) ==
  /\ UNCHANGED apiVars
  /\ f \in inflight
  /\ f.kind = "exec"
  /\ inflight' = inflight \ {f}
  /\ unhandled' = (unhandled \/ ~Catches(f.kind))
  /\ IF Live(f.kind, f.inst)
       THEN /\ execResult' = ExecCatch(execResult, msg)
            /\ execLoading' = ExecFinally(execLoading)
       ELSE UNCHANGED << execResult, execLoading >>
  /\ UNCHANGED << dashMounted, dashInst, panelInst, nextInst, tab, health,
                  data, error, loading, filter, selectedQuery, execIssued,
                  timers, total, lastOk, outcome, issued, ticks, runs >>

\* RequireAuth stops rendering Dashboard: the mounted panel and Dashboard
\* unmount, both cleanups clear their intervals.
UnmountDashboard ==
  /\ UNCHANGED apiVars
  /\ dashMounted
  /\ dashMounted' = FALSE
  /\ dashInst' = 0
  /\ panelInst' = 0
  /\ tab' = "Metrics"
  /\ health' = NullHealth
  /\ ResetPanels
  /\ timers' = Cleanup(Cleanup(timers, tab, panelInst), "health", dashInst)
  /\ lastOk' = [o \in Pollers |->
                  IF o = "health" THEN NullHealth ELSE InitData(o)]
  /\ outcome' = [o \in Pollers |-> "none"]
  /\ issued' = [o \in Pollers |-> 0]
  /\ ticks' = [o \in Pollers |-> 0]
  /\ runs' = [o \in Pollers |-> 0]
  /\ UNCHANGED << nextInst, inflight, total, unhandled >>

\* RequireAuth renders Dashboard again: a new Dashboard on the Metrics tab,
\* the mount effects of MetricsPanel and of Dashboard run.
MountDashboard ==
  /\ UNCHANGED apiVars
  /\ ~dashMounted
  /\ nextInst + 2 <= MaxMounts
  /\ total + 2 <= MaxFetches
  /\ LET d == nextInst + 1
         m == nextInst + 2
         newM == Load(1, "Metrics", m, "")
         newH == Load(1, "health", d, "")
     IN  /\ dashMounted' = TRUE
         /\ dashInst' = d
         /\ panelInst' = m
         /\ nextInst' = m
         /\ timers' = timers \cup { Timer("Metrics", m, ""), Timer("health", d, "") }
         /\ inflight' = inflight \cup newM \cup newH
         /\ issued' = [o \in Pollers |->
                         IF o = "Metrics" THEN Cardinality(newM)
                         ELSE IF o = "health" THEN Cardinality(newH)
                         ELSE 0]
         /\ total' = total + Cardinality(newM) + Cardinality(newH)
  /\ runs' = [o \in Pollers |-> IF o \in {"Metrics", "health"} THEN 1 ELSE 0]
  /\ UNCHANGED << tab, health, data, error, loading, filter, selectedQuery,
                  execResult, execLoading, execIssued, unhandled, lastOk,
                  outcome, ticks >>

Next ==
  \/ \E t \in TABS : SetTab(t)
  \/ \E t \in timers : Tick(t)
  \/ \E f \in inflight : \E res \in PollResponses(f) : ResolvePoll(f, res)
  \/ \E f \in inflight : \E msg \in Msgs : RejectPoll(f, msg)
  \/ \E f \in inflight : \E snap \in HealthPayloads : ResolveHealth(f, snap)
  \/ \E f \in inflight : RejectHealth(f)
  \/ \E v \in Scopes : SetFilter(v)
  \/ \E s \in Samples : SelectQuery(s)
  \/ CloseQuery
  \/ \E f \in inflight : \E res \in ExecResponses(f) : ResolveExec(f, res)
  \/ \E f \in inflight : \E msg \in Msgs : RejectExec(f, msg)
  \/ UnmountDashboard
  \/ MountDashboard

Spec == Init /\ [][Next]_vars

\* -------------------------------------------------------------- api client
\* Values passed to setAccessToken: null and two tokens.
Tokens == {"null", "t1", "t2"}
\* The api functions the dashboard calls; all go through the axios instance.
ApiFunctions == { "fetchHealth", "fetchMetrics", "fetchDrift", "fetchErrors",
                  "fetchHistory", "fetchAlerts", "executeSql" }
\* The Authorization header of a request: absent, or `Bearer ${token}`.
NoAuthorization == [scheme |-> "none", token |-> ""]
Bearer(token) == [scheme |-> "Bearer", token |-> token]

\* Interceptor with a fault: the token is read when the client is created.
Interceptor_stale(token) == NoAuthorization

\* The request interceptor: if (accessToken) config.headers.Authorization =
\* `Bearer ${accessToken}`.
Interceptor(token) ==
  IF token # "null" THEN Bearer(token) ELSE NoAuthorization

\* setAccessToken(token)
SetAccessToken(t) ==
  /\ t \in Tokens
  /\ accessToken' = t
  /\ UNCHANGED << dashMounted, dashInst, panelInst, nextInst, tab, health,
                  data, error, loading, filter, selectedQuery, execResult,
                  execLoading, timers, inflight, total, execIssued,
                  unhandled, lastOk, outcome, issued, ticks, runs, requests >>

\* A call of an api function: the request passes the interceptor and is sent.
ApiRequest(fn) ==
  /\ fn \in ApiFunctions
  /\ Len(requests) < MaxRequests
  /\ requests' = Append(requests,
                        [fn |-> fn, Authorization |-> Interceptor(accessToken)])
  /\ UNCHANGED << dashMounted, dashInst, panelInst, nextInst, tab, health,
                  data, error, loading, filter, selectedQuery, execResult,
                  execLoading, timers, inflight, total, execIssued,
                  unhandled, lastOk, outcome, issued, ticks, runs,
                  accessToken >>

\* The api client on its own: token updates and requests in any order.  No
\* component reads the token or the request headers, so the components stay
\* as Init leaves them.
ApiNext ==
  \/ \E t \in Tokens : SetAccessToken(t)
  \/ \E fn \in ApiFunctions : ApiRequest(fn)

ApiSpec == Init /\ [][ApiNext]_vars

\* ------------------------------------------------------------------ claims
\* The poller o is mounted.
Mounted(o) == dashMounted /\ (o = "health" \/ o = tab)
\* The instance that issued fetch f has been unmounted.
Unmounted(f) ==
  \/ ~dashMounted
  \/ f.inst # (IF f.kind = "health" THEN dashInst ELSE panelInst)
\* The fetches that settle in a step, and those issued in it.
Settling == inflight \ inflight'
Issuing == inflight' \ inflight
\* State of the components, as opposed to the bookkeeping of the model.
compState == << tab, health, data, error, loading, filter, selectedQuery,
                execResult, execLoading >>

\* C1: an executeSql response that belongs to a superseded selection causes
\* no change to execResult; execResult is only written by the response of
\* the fetch issued for the selection current when it arrives.
C1_StaleSelectionNoWrite ==
  [][ \A f \in Settling :
        (f.kind = "exec" /\ f.sel # selectedQuery) => execResult' = execResult
    ]_vars

\* C2: after the filter has changed, a fetchDrift response issued under the
\* previous scope is never written into data.
C2_StaleScopeNoWrite ==
  [][ \A f \in Settling :
        (f.kind = "Drift" /\ f.param # filter) => data'["Drift"] = data["Drift"]
    ]_vars

\* C3: once a poller's component is unmounted, a fetch of it that was in
\* flight and settles later writes no component state and raises no error.
C3_NoWriteAfterUnmount ==
  [][ \A f \in Settling :
        (f.kind \in Pollers /\ Unmounted(f)) =>
          (compState' = compState /\ ~unhandled')
    ]_vars
\* A fetch of an unmounted panel and one of an unmounted Dashboard are in
\* flight.
C3_Witness ==
  /\ \E f \in inflight : f.kind \in TABS /\ Unmounted(f)
  /\ \E f \in inflight : f.kind = "health" /\ Unmounted(f)

\* C4: in every poller the data is the payload of the most recently applied
\* successful fetch, or the initial value if none succeeded; a failed fetch
\* leaves it as it was.
C4_LastKnownGood ==
  /\ \A p \in TABS : data[p] = lastOk[p]
  /\ health = lastOk["health"]
\* A poll failed after a success, and so did a health poll.
C4_Witness ==
  /\ outcome[tab] = "fail" /\ lastOk[tab].id # 0
  /\ outcome["health"] = "fail" /\ lastOk["health"] # NullHealth

\* C5: in Metrics, Errors and Drift the error is reset to null by the next
\* successful fetch.
C5_ErrorClearedOnSuccess ==
  \A p \in ErrPanels : outcome[p] = "ok" => error[p] = "null"

\* C6: when a poll fails after an earlier poll succeeded, the view shows the
\* last-known-good data together with the error indicator.
C6_DataKeptBesideError ==
  \A p \in TABS :
    (Mounted(p) /\ outcome[p] = "fail" /\ lastOk[p].id # 0) =>
      (View(p).table /\ View(p).error)

\* C7: agentsUp is true iff the snapshot's agent mapping is non-empty and
\* every entry has status 'ok'.
C7_AgentsUpIff ==
  agentsUp <=> /\ health # NullHealth
               /\ DOMAIN health.agents # {}
               /\ \A a \in DOMAIN health.agents : health.agents[a] = "ok"

C9_LoadingOnlyUntilFirstSettle ==
  /\ [](\A p \in LoadPanels : loading[p] <=> outcome[p] = "none")
  /\ [][ \A p \in LoadPanels :
           (panelInst' = panelInst /\ ~loading[p]) => ~loading'[p] ]_vars
\* Loading is false while a later poll of the panel is in flight.
C9_Witness ==
  /\ tab \in LoadPanels
  /\ ~loading[tab]
  /\ \E f \in inflight : f.kind = tab /\ ~Unmounted(f) /\ f.id > 1

\* C10: a poller issues one fetch on mount and exactly one per interval tick
\* (DriftPanel one more for each run of its [filter] effect), its timers
\* belong to the mounted instance, and no fetch is issued for an unmounted
\* instance.
C10_OneFetchPerTick ==
  /\ [](\A o \in Pollers :
          /\ issued[o] = runs[o] + ticks[o]
          /\ Mounted(o) => runs[o] >= 1
          /\ (Mounted(o) /\ o # "Drift") => runs[o] = 1
          /\ ~Mounted(o) => issued[o] = 0)
  /\ [](\A t \in timers : ~Unmounted([kind |-> t.owner, inst |-> t.inst]))
  /\ [][ \A f \in Issuing :
           /\ dashMounted'
           /\ f.inst = (IF f.kind = "health" THEN dashInst' ELSE panelInst')
       ]_vars
\* A panel mounted after a tab change has ticked once, and so has the health
\* poller.
C10_Witness ==
  /\ tab # "Metrics"
  /\ ticks[tab] = 1
  /\ issued[tab] = 2
  /\ ticks["health"] = 1

\* C11: within one poller, the response of an earlier-issued fetch never
\* overwrites data that was applied from a later-issued fetch.
C11_OlderNeverOverwritesNewer ==
  [][ \A f \in Settling :
        (f.kind \in TABS /\ ~Unmounted(f) /\ data[f.kind].id > f.id) =>
          data'[f.kind] = data[f.kind]
    ]_vars

\* C12: when DriftPanel's filter changes to v, a fetchDrift for v is issued
\* in that step, every drift fetch issued from then on (interval ticks
\* included) is for the current filter, and no drift timer is left that
\* requests another scope.
C12_FilterChangeRefetches ==
  /\ [](\A t \in timers : t.owner = "Drift" => t.scope = filter)
  /\ [][ /\ (tab = "Drift" /\ panelInst' = panelInst /\ filter' # filter) =>
              \E f \in Issuing : f.kind = "Drift" /\ f.param = filter'
         /\ \A f \in Issuing : f.kind = "Drift" => f.param = filter'
       ]_vars
\* The filter was changed to 'spend'; the fetch of the change and the fetch
\* of a later interval tick are in flight.
C12_Witness ==
  /\ tab = "Drift"
  /\ filter = "spend"
  /\ ticks["Drift"] = 1
  /\ \E f, g \in inflight :
       /\ f.kind = "Drift" /\ g.kind = "Drift"
       /\ ~Unmounted(f) /\ ~Unmounted(g)
       /\ f.param = "spend" /\ g.param = "spend"
       /\ f.id # g.id

\* C13: when DriftPanel's selection is cleared (set to null), execResult is
\* set to null in that step and no executeSql call is issued.
C13_ClearSelection ==
  [][ (dashMounted' /\ panelInst' = panelInst
         /\ selectedQuery # NoSel /\ selectedQuery' = NoSel) =>
        (execResult' = NullRes /\ Issuing = {} /\ total' = total)
    ]_vars
\* The selection was cleared while its executeSql call was pending.
C13_Witness ==
  /\ tab = "Drift"
  /\ selectedQuery = NoSel
  /\ execResult = NullRes
  /\ execIssued = 1
  /\ \E f \in inflight : f.kind = "exec" /\ ~Unmounted(f)

\* C14: after the selection has been cleared, execResult stays null until a
\* new selection is made, also when an executeSql call issued for the
\* cleared selection resolves or rejects later.
C14_ClearedStaysNull ==
  selectedQuery = NoSel => execResult = NullRes

\* C15: when an executable selection is made, execLoading is true and
\* execResult is null when the executeSql call is issued, so that no result
\* of a previous selection is held while the new call is pending.
C15_ResultResetOnSelect ==
  [][ \A f \in Issuing :
        f.kind = "exec" => (execLoading' /\ execResult' = NullRes)
    ]_vars

\* C16: in every polling panel, when the first fetch after mount has failed
\* and no fetch has succeeded yet, the panel shows its loading or its error
\* state and renders no data table and no empty-data view.
C16_FirstFailureShowsNoData ==
  \A p \in TABS :
    (Mounted(p) /\ outcome[p] = "fail" /\ lastOk[p].id = 0) =>
      (~View(p).table /\ (View(p).loading \/ View(p).error))

\* C17: the active tab is always one of the five TABS; while the Dashboard
\* is rendered exactly one panel is mounted, the one of the active tab (the
\* only panel interval alive is that of this panel instance); a tab change
\* unmounts the previous panel, which clears its interval, and mounts a new
\* instance of the panel of the new tab.
C17_OnePanelPerTab ==
  /\ [](tab \in TABS)
  /\ [](dashMounted =>
          /\ panelInst # 0
          /\ \E s \in Scopes :
               { t \in timers : t.owner \in TABS } = { Timer(tab, panelInst, s) })
  /\ [][ (dashMounted /\ dashMounted' /\ tab' # tab) =>
           /\ panelInst' > panelInst
           /\ \A t \in timers' : t.owner \in TABS => t.inst # panelInst
           /\ Timer(tab', panelInst', "") \in timers'
           /\ data'[tab'] = InitData(tab')
       ]_vars
\* After a tab change: the new panel polls, a fetch of the previous panel is
\* still in flight.
C17_Witness ==
  /\ dashMounted
  /\ tab = "Errors"
  /\ \E f \in inflight : f.kind = "Metrics" /\ Unmounted(f)
  /\ \E f \in inflight : f.kind = "Errors" /\ ~Unmounted(f) /\ f.id = 2

\* C18: every request sent through the api client carries 'Authorization:
\* Bearer <t>' with t the value most recently passed to setAccessToken when
\* the request is issued, and no Authorization header when that value is
\* null; a token update between two requests is seen by the second.
C18_BearerIsLatestToken ==
  [][ Len(requests') > Len(requests) =>
        LET r == requests'[Len(requests')]
        IN  IF accessToken = "null"
              THEN r.Authorization.scheme = "none"
              ELSE r.Authorization = [scheme |-> "Bearer", token |-> accessToken]
    ]_vars
\* Two requests with a token update in between: the first carries the first
\* token, the second the second one.
C18_Witness ==
  /\ Len(requests) = 2
  /\ requests[1].Authorization = [scheme |-> "Bearer", token |-> "t1"]
  /\ requests[2].Authorization = [scheme |-> "Bearer", token |-> "t2"]
  /\ accessToken = "null"

\* C19: execLoading is true in every state in which the executeSql call
\* issued for the current selection has not settled; the settling of a call
\* of a superseded selection does not make it false.
C19_LoadingWhilePending ==
  \A f \in inflight :
    (f.kind = "exec" /\ ~Unmounted(f) /\ f.sel = selectedQuery) => execLoading

\* C20: a fetchDrift that was issued under a previous filter and fails after
\* the filter has changed does not set DriftPanel's error.
C20_StaleScopeFailureSilent ==
  [][ \A f \in Settling :
        (f.kind = "Drift" /\ ~Unmounted(f) /\ f.param # filter) =>
          error'["Drift"] = error["Drift"]
    ]_vars

\* C21: when the executeSql call of the current selection is rejected, the
\* rejection is caught, execResult becomes the error result that carries the
\* failure's message and execLoading becomes false; execLoading is never
\* true once no executeSql call of the panel is pending.
C21_RejectionBecomesErrorResult ==
  /\ [](execLoading => \E f \in inflight : f.kind = "exec" /\ ~Unmounted(f))
  /\ [][ \A f \in inflight : \A msg \in Msgs :
           (RejectExec(f, msg) /\ ~Unmounted(f) /\ f.sel = selectedQuery) =>
             /\ execResult' = [status |-> "error", error |-> msg,
                               sql |-> "", rows |-> 0]
             /\ ~execLoading'
             /\ unhandled' = unhandled
       ]_vars
\* The call of the selected row X was rejected: its error result is shown
\* and nothing is pending.
C21_Witness ==
  /\ tab = "Drift"
  /\ selectedQuery.query_id = "X"
  /\ execResult.status = "error" /\ execResult.error \in Msgs
  /\ ~execLoading
  /\ ~\E f \in inflight : f.kind = "exec"

\* The error state a poller keeps for its view: Metrics, Drift and Errors
\* have one, Executions, Alerts and the health poller have none.
ErrorState(p) == IF p \in ErrPanels THEN error[p] ELSE "null"

\* C22: in every poller (health included) a failed fetch is caught and its
\* message is stored in an error state the view can render; no poller drops
\* a failure without recording it.
C22_FailureRecorded ==
  \A p \in Pollers :
    (Mounted(p) /\ outcome[p] = "fail") => ErrorState(p) \in Msgs

\* C23: outstanding fetches do not interfere.  A health response changes
\* only the health snapshot; a drift poll response changes only DriftPanel's
\* data or error and leaves selectedQuery, execResult and execLoading as
\* they are; an executeSql response leaves data, error and filter as they
\* are; a tab change neither stops nor restarts the health timer.
C23_NoInterference ==
  [][ /\ \A f \in Settling :
           /\ f.kind = "health" =>
                UNCHANGED << tab, data, error, loading, filter, selectedQuery,
                             execResult, execLoading, timers >>
           /\ f.kind = "Drift" =>
                /\ UNCHANGED << tab, health, loading, filter, selectedQuery,
                                execResult, execLoading, timers >>
                /\ \A p \in TABS \ {"Drift"} : data'[p] = data[p]
                /\ \A p \in ErrPanels \ {"Drift"} : error'[p] = error[p]
           /\ f.kind = "exec" =>
                UNCHANGED << tab, health, data, error, loading, filter,
                             selectedQuery, timers >>
      /\ (dashMounted /\ dashMounted' /\ tab' # tab) =>
           /\ { t \in timers' : t.owner = "health" }
                = { t \in timers : t.owner = "health" }
           /\ \A f \in Issuing : f.kind # "health"
           /\ health' = health /\ dashInst' = dashInst
    ]_vars
\* A health poll, a drift poll and an executeSql call of the mounted
\* components are outstanding together, after a drift response was applied.
C23_Witness ==
  /\ tab = "Drift"
  /\ data["Drift"].id = 1
  /\ \E f \in inflight : f.kind = "health" /\ ~Unmounted(f)
  /\ \E f \in inflight : f.kind = "Drift" /\ ~Unmounted(f)
  /\ \E f \in inflight : f.kind = "exec" /\ ~Unmounted(f)

\* C24: after any sequence of mounts, unmounts, tab changes and filter
\* changes every mounted poller has exactly one interval timer and every
\* unmounted poller has none; a filter change never leaves two drift timers.
C24_OneTimerPerMountedPoller ==
  \A o \in Pollers :
    Cardinality({ t \in timers : t.owner = o }) = IF Mounted(o) THEN 1 ELSE 0
\* DriftPanel after a filter change, with its one timer and the health
\* timer.
C24_Witness ==
  /\ tab = "Drift"
  /\ filter = "spend"
  /\ runs["Drift"] = 2
  /\ timers = { Timer("Drift", panelInst, "spend"), Timer("health", dashInst, "") }

\* The values execResult can take.
ResultValues ==
  {NullRes}
    \cup { ErrRes(m) : m \in Msgs \cup {"SQL error", "No SQL recorded."} }
    \cup { OkRes(s.sql, n) : s \in Samples, n \in 0..1 }
\* What (execLoading, execResult) stands for.
OutputCase(l, res) ==
  IF l THEN "pending"
  ELSE IF res.status = "error" THEN "failed"
  ELSE IF res.status = "ok" /\ res.rows = 0 THEN "zero rows"
  ELSE IF res.status = "ok" THEN "rows"
  ELSE "no result"

\* C25: the query-output view is a function of (execLoading, execResult)
\* that shows pairwise distinct views for fetch pending, fetch failed,
\* success with zero rows and success with rows; a successful result with no
\* rows is shown as '0 rows returned.', not as pending and not as failed.
C25_OutputViewsDistinct ==
  /\ execResult \in ResultValues
  /\ \A l \in BOOLEAN : \A r \in ResultValues :
       OutputCase(l, r) # OutputCase(execLoading, execResult) =>
         OutputView(l, r).el # OutputView(execLoading, execResult).el
  /\ (OutputCase(execLoading, execResult) = "zero rows") =>
       /\ OutputView(execLoading, execResult).text = "0 rows returned."
       /\ OutputView(execLoading, execResult).el
            \notin { OutputView(TRUE, execResult).el,
                     OutputView(FALSE, ErrRes("SQL error")).el }
  /\ (OutputCase(execLoading, execResult) = "rows") =>
       OutputView(execLoading, execResult).rows = execResult.rows
  /\ (OutputCase(execLoading, execResult) = "failed") =>
       OutputView(execLoading, execResult).text = execResult.error
\* The executeSql call of the selected row has returned a result with no
\* rows and nothing is pending.
C25_Witness ==
  /\ tab = "Drift"
  /\ selectedQuery # NoSel
  /\ ~execLoading
  /\ execResult.status = "ok" /\ execResult.rows = 0
  /\ execResult.sql = selectedQuery.sql

\* The agents-up flag a snapshot h gives.
UpIn(h) ==
  IF h.kind = "null" THEN FALSE
  ELSE \A a \in DOMAIN h.agents : h.agents[a] = "ok"

\* C26: a failed health poll leaves the health snapshot as it is, so while
\* health polls keep failing agentsUp keeps the value that the last
\* successful health response gave.
C26_AgentsUpSurvivesFailure ==
  /\ [](outcome["health"] = "fail" => agentsUp = UpIn(lastOk["health"]))
  /\ [][ \A f \in inflight : RejectHealth(f) => health' = health ]_vars
\* An all-ok snapshot was applied, the next health poll failed, agentsUp is
\* still true.
C26_Witness ==
  /\ outcome["health"] = "fail"
  /\ issued["health"] = 2
  /\ health.hasAgents
  /\ agentsUp
  /\ ~\E f \in inflight : f.kind = "health" /\ ~Unmounted(f)

=============================================================================
